---- MODULE Spec2Model ----
(***************************************************************************)
(* config-loadr: typed configuration from environment variables.           *)
(* The model covers the typed parser (env_parse), the three field         *)
(* policies (env_required / env_or_default / env_or_option), the          *)
(* ConfigBuilder, the Load implementation and the static metadata that     *)
(* define_config! generates for a schema, and the Environment type.        *)
(*                                                                         *)
(* Four specifications: Spec (a builder driven by hand and the generated   *)
(* Load functions), SpecEnvironment (a variable of type Environment),      *)
(* SpecMeta (threads calling metadata() while the configuration loads)     *)
(* and SpecMacro (define_config! expanding a declaration, and the Load     *)
(* functions it generates).                                                *)
(*                                                                         *)
(* Text is modelled as a sequence of pieces: a value read from the        *)
(* environment is a sequence of one-character strings, so that parsing     *)
(* and formatting are computed character by character.                    *)
(***************************************************************************)
EXTENDS Integers, Sequences, FiniteSets

VARIABLES env, open, fields, errors, calls, last, cell, threads, expansion

vars == <<env, open, fields, errors, calls, last, cell, threads, expansion>>

\* What no builder or Load operation touches: the static metadata of a
\* schema, the threads that ask for it, and what define_config! made of
\* the declaration it was given.
statics == <<cell, threads, expansion>>

----------------------------------------------------------------------------
(* Bounds *)

\* Record calls (required / or_default / optional) made by hand on one builder.
MaxCalls == 2

\* Length of the longest generated word an Environment is parsed from.
MaxWordLen == 3

\* Threads that call metadata().
NumThreads == 2

----------------------------------------------------------------------------
(* Strings *)

svc == <<"s", "v", "c">>
s8080 == <<"8", "0", "8", "0">>
s9090 == <<"9", "0", "9", "0">>
s65536 == <<"6", "5", "5", "3", "6">>
s3 == <<"3">>
notANumber == <<"n", "o", "t", "-", "a", "-", "n", "u", "m", "b", "e", "r">>
app == <<"a", "p", "p">>
prod == <<"p", "r", "o", "d">>
production == <<"p", "r", "o", "d", "u", "c", "t", "i", "o", "n">>
dev == <<"d", "e", "v">>
development == <<"d", "e", "v", "e", "l", "o", "p", "m", "e", "n", "t">>
staging == <<"s", "t", "a", "g", "i", "n", "g">>

DigitChars == <<"0", "1", "2", "3", "4", "5", "6", "7", "8", "9">>

IsDigit(c) == \E i \in 1..10 : DigitChars[i] = c

DigitVal(c) == (CHOOSE i \in 1..10 : DigitChars[i] = c) - 1

----------------------------------------------------------------------------
(* Typed values: T is String, u16 or Environment.  Option<T> and          *)
(* Option<String>.                                                        *)

StrVal(s) == [ty |-> "String", n |-> 0, s |-> s]
U16Val(n) == [ty |-> "u16", n |-> n, s |-> <<>>]

\* enum Environment { Prod, Dev }
Prod == [ty |-> "Environment", n |-> 0, s |-> <<"Prod">>]
Dev == [ty |-> "Environment", n |-> 0, s |-> <<"Dev">>]
NoVal == [ty |-> "-", n |-> 0, s |-> <<>>]

Some(v) == [some |-> TRUE, v |-> v]
None == [some |-> FALSE, v |-> NoVal]

SomeStr(s) == [some |-> TRUE, s |-> s]
NoneStr == [some |-> FALSE, s |-> <<>>]

\* u16::MAX
U16Max == 2^16 - 1

\* <u16 as FromStr>::from_str on the digits after the optional sign:
\* checked multiply-and-add, -1 for an invalid digit or an overflow.
RECURSIVE ParseDigits(_, _)
ParseDigits(s, acc) ==
    IF s = <<>> THEN acc
    ELSE IF ~IsDigit(Head(s)) THEN -1
    ELSE LET next == acc * 10 + DigitVal(Head(s))
         IN  IF next > U16Max THEN -1 ELSE ParseDigits(Tail(s), next)

\* <u16 as FromStr>::from_str: empty, a lone sign, "-", a non-digit and an
\* overflow are errors; one leading "+" is accepted.
ParseU16(s) ==
    LET digits == IF s # <<>> /\ Head(s) = "+" THEN Tail(s) ELSE s
        n == IF digits = <<>> THEN -1 ELSE ParseDigits(digits, 0)
    IN  IF n < 0 THEN [ok |-> FALSE, v |-> NoVal]
        ELSE [ok |-> TRUE, v |-> U16Val(n)]

\* Display for an unsigned integer (u16, usize): decimal, no leading zero.
RECURSIVE uint_to_string(_)
uint_to_string(n) ==
    IF n < 10 THEN <<DigitChars[n + 1]>>
    ELSE uint_to_string(n \div 10) \o <<DigitChars[(n % 10) + 1]>>

\* Display for Environment
Environment_fmt(v) == IF v = Prod THEN prod ELSE dev

\* T::to_string()
to_string(v) ==
    CASE v.ty = "String" -> v.s
      [] v.ty = "Environment" -> Environment_fmt(v)
      [] OTHER -> uint_to_string(v.n)

----------------------------------------------------------------------------
(* The process environment *)

Keys == {"NAME", "PORT", "DEBUG_LEVEL"}

\* One variable of the process environment: not set, set to bytes that are
\* not valid Unicode, or set to a string.
NotPresent == [kind |-> "NotPresent", s |-> <<>>]
NotUnicode == [kind |-> "NotUnicode", s |-> <<>>]
Utf8(s) == [kind |-> "Unicode", s |-> s]

EnvDomain(k) ==
    CASE k = "NAME" -> {NotPresent, Utf8(svc)}
      [] k = "PORT" -> {NotPresent, NotUnicode, Utf8(s8080), Utf8(notANumber)}
      [] OTHER -> {NotPresent, Utf8(s3), Utf8(s65536)}

\* What a .env file of the working directory may hold when dotenv reads it,
\* as key -> value (NotPresent: no line for the key, or no file).
DotFiles ==
    { [k \in Keys |-> NotPresent],
      [k \in Keys |-> IF k = "PORT" THEN Utf8(s9090) ELSE NotPresent] }

\* std::env::var: Err(NotPresent) for an unset key, Err(NotUnicode) for a
\* value that is not valid Unicode, Ok(s) otherwise.
env_var(e, key) ==
    IF e[key].kind = "Unicode" THEN [ok |-> TRUE, s |-> e[key].s]
    ELSE [ok |-> FALSE, s |-> <<>>]

\* Faulty variant of dotenv: a line of the file overrides a set variable.
dotenv_override(e, file) ==
    [k \in Keys |-> IF file[k].kind = "Unicode" THEN file[k] ELSE e[k]]

\* dotenvy::dotenv(): every line of the file whose key env::var cannot read
\* is set in the process environment; a set variable is never overridden.
dotenv(e, file) ==
    [k \in Keys |->
        IF file[k].kind = "Unicode" /\ ~env_var(e, k).ok THEN file[k] ELSE e[k]]

----------------------------------------------------------------------------
(* error.rs: ConfigError *)

MissingEnvVar(key, description, example) ==
    [kind |-> "MissingEnvVar", key |-> key, value |-> NoneStr,
     description |-> description, example |-> example]

InvalidEnvironment(key, value, description, example) ==
    [kind |-> "InvalidEnvironment", key |-> key, value |-> SomeStr(value),
     description |-> description, example |-> example]

NoError == [kind |-> "-", key |-> "-", value |-> NoneStr,
            description |-> "-", example |-> NoneStr]

Ok(v) == [ok |-> TRUE, v |-> v, e |-> NoError]
Err(e) == [ok |-> FALSE, v |-> None, e |-> e]

----------------------------------------------------------------------------
(* environment.rs: FromStr for Environment; the FromStr the builder calls *)
(* for a field's type.  A parse result carries the parser's own error.    *)

\* Faulty variant of Environment::from_str: the match ignores the case.
Environment_from_str_nocase(s) ==
    IF s \in {prod, production, <<"P", "R", "O", "D">>, <<"P", "r", "o", "d">>}
    THEN [ok |-> TRUE, v |-> Prod, err |-> NoError]
    ELSE IF s \in {dev, development, <<"D", "E", "V">>, <<"D", "e", "v">>}
    THEN [ok |-> TRUE, v |-> Dev, err |-> NoError]
    ELSE [ok |-> FALSE, v |-> NoVal,
          err |-> InvalidEnvironment("ENVIRONMENT", s,
                                     "Expected 'dev' or 'prod'", SomeStr(prod))]

Environment_from_str(s) ==
    IF s \in {prod, production}
    THEN [ok |-> TRUE, v |-> Prod, err |-> NoError]
    ELSE IF s \in {dev, development}
    THEN [ok |-> TRUE, v |-> Dev, err |-> NoError]
    ELSE [ok |-> FALSE, v |-> NoVal,
          err |-> InvalidEnvironment("ENVIRONMENT", s,
                                     "Expected 'dev' or 'prod'", SomeStr(prod))]

\* std::num::ParseIntError, in the shape of a ConfigError.
ParseIntError ==
    [kind |-> "ParseIntError", key |-> "-", value |-> NoneStr,
     description |-> "-", example |-> NoneStr]

\* s.parse::<T>() (builder.rs:26); <String as FromStr>::from_str cannot fail.
Parse(ty, s) ==
    CASE ty = "String" -> [ok |-> TRUE, v |-> StrVal(s), err |-> NoError]
      [] ty = "Environment" -> Environment_from_str(s)
      [] OTHER -> LET p == ParseU16(s)
                  IN  [ok |-> p.ok, v |-> p.v,
                       err |-> IF p.ok THEN NoError ELSE ParseIntError]

----------------------------------------------------------------------------
(* builder.rs: the typed parser and the three field policies.  A Result   *)
(* carries an Option so that the three policies share one shape: the      *)
(* Ok of env_parse / env_required / env_or_default is always Some.        *)

\* The calls a field's evaluation makes, as they are made: env::var(key)
\* and the parse() of what it returned.
EnvVarCall(key) == [op |-> "env::var", key |-> key]
ParseCall(key) == [op |-> "parse", key |-> key]

\* A Result together with the calls made to compute it, in order.
Traced(r, io) == [ok |-> r.ok, v |-> r.v, e |-> r.e, io |-> io]

\* Faulty variant of env_parse: a parser's own ConfigError is passed on.
env_parse_parser_error(e, ty, key, description, example) ==
    LET r == env_var(e, key)
    IN  IF r.ok
        THEN LET p == Parse(ty, r.s)
             IN  Traced(IF p.ok THEN Ok(Some(p.v))
                        ELSE IF p.err.kind = "InvalidEnvironment" THEN Err(p.err)
                        ELSE Err(InvalidEnvironment(key, r.s, description,
                                                    example)),
                        <<EnvVarCall(key), ParseCall(key)>>)
        ELSE Traced(Err(MissingEnvVar(key, description, example)),
                    <<EnvVarCall(key)>>)

env_parse(e, ty, key, description, example) ==
    LET r == env_var(e, key)
    IN  IF r.ok
        THEN LET p == Parse(ty, r.s)
             IN  Traced(IF p.ok THEN Ok(Some(p.v))
                        ELSE Err(InvalidEnvironment(key, r.s, description,
                                                    example)),
                        <<EnvVarCall(key), ParseCall(key)>>)
        ELSE Traced(Err(MissingEnvVar(key, description, example)),
                    <<EnvVarCall(key)>>)

\* Faulty variant of env_required: the example stands in for a missing
\* variable.
env_required_example_fallback(e, ty, key, description, example) ==
    LET r == env_parse(e, ty, key, description, SomeStr(to_string(example)))
    IN  IF ~r.ok /\ r.e.kind = "MissingEnvVar"
        THEN Traced(Ok(Some(example)), r.io)
        ELSE r

env_required(e, ty, key, description, example) ==
    env_parse(e, ty, key, description, SomeStr(to_string(example)))

\* The arms of env_or_default's match on the result r of env_parse.
default_if_missing(r, default) ==
    IF r.ok THEN r
    ELSE IF r.e.kind = "MissingEnvVar" THEN Traced(Ok(Some(default)), r.io)
    ELSE r

\* The same arms on the result `again` of a second attempt made after a
\* failed first one.
default_if_missing_twice(r, again, default) ==
    IF r.ok THEN r
    ELSE IF again.ok THEN Traced(again, r.io \o again.io)
    ELSE IF again.e.kind = "MissingEnvVar"
    THEN Traced(Ok(Some(default)), r.io \o again.io)
    ELSE Traced(again, r.io \o again.io)

\* Faulty variant of env_or_default: a failed attempt is made once more.
env_or_default_retry(e, ty, key, description, default) ==
    default_if_missing_twice(
        env_parse(e, ty, key, description, SomeStr(to_string(default))),
        env_parse(e, ty, key, description, SomeStr(to_string(default))),
        default)

\* Faulty variant of env_or_default: a missing variable gives Ok(None), as
\* for an Optional field, instead of the default.
env_or_default_none(e, ty, key, description, default) ==
    LET r == env_parse(e, ty, key, description, SomeStr(to_string(default)))
    IN  IF ~r.ok /\ r.e.kind = "MissingEnvVar"
        THEN Traced(Ok(None), r.io)
        ELSE r

env_or_default(e, ty, key, description, default) ==
    default_if_missing(
        env_parse(e, ty, key, description, SomeStr(to_string(default))),
        default)

\* The arms of env_or_option's match on the result r of env_parse.
none_if_missing(r) ==
    IF r.ok THEN r
    ELSE IF r.e.kind = "MissingEnvVar" THEN Traced(Ok(None), r.io)
    ELSE r

env_or_option(e, ty, key, description, example) ==
    none_if_missing(env_parse(e, ty, key, description, example))

----------------------------------------------------------------------------
(* builder.rs: ConfigBuilder.  A builder value is [fields, errors]; every *)
(* record call returns the builder after the call and the call's result.  *)

FieldMetadata(key, description, default_str, required) ==
    [key |-> key, description |-> description, default_str |-> default_str,
     required |-> required]

new == [fields |-> <<>>, errors |-> <<>>]

\* Faulty variant of Collect: fail-fast, a field after the first error is
\* neither recorded nor evaluated.
Collect_fail_fast(b, meta, r) ==
    IF b.errors # <<>>
    THEN [fields |-> b.fields, errors |-> b.errors, ret |-> None, io |-> <<>>]
    ELSE [fields |-> Append(b.fields, meta),
          errors |-> IF r.ok THEN b.errors ELSE Append(b.errors, r.e),
          ret |-> IF r.ok THEN r.v ELSE None, io |-> r.io]

\* Variant of Collect that refuses a key the builder has recorded before:
\* the call neither evaluates nor records it.
Collect_skip_recorded(b, meta, r) ==
    IF \E i \in 1..Len(b.fields) : b.fields[i].key = meta.key
    THEN [fields |-> b.fields, errors |-> b.errors, ret |-> None, io |-> <<>>]
    ELSE [fields |-> Append(b.fields, meta),
          errors |-> IF r.ok THEN b.errors ELSE Append(b.errors, r.e),
          ret |-> IF r.ok THEN r.v ELSE None, io |-> r.io]

\* Faulty variant of Collect: the metadata is recorded after the evaluation
\* and only when it succeeded.
Collect_success_only(b, meta, r) ==
    [fields |-> IF r.ok THEN Append(b.fields, meta) ELSE b.fields,
     errors |-> IF r.ok THEN b.errors ELSE Append(b.errors, r.e),
     ret |-> IF r.ok THEN r.v ELSE None, io |-> r.io]

\* The Ok/Err arms shared by required / or_default / optional.
Collect(b, meta, r) ==
    [fields |-> Append(b.fields, meta),
     errors |-> IF r.ok THEN b.errors ELSE Append(b.errors, r.e),
     ret |-> IF r.ok THEN r.v ELSE None, io |-> r.io]

required(b, e, ty, key, description, example) ==
    Collect(b, FieldMetadata(key, description, to_string(example), TRUE),
            env_required(e, ty, key, description, example))

\* Faulty variant of or_default: the default is never substituted, an
\* absent key is an error as for required.
or_default_strict(b, e, ty, key, description, default) ==
    Collect(b, FieldMetadata(key, description, to_string(default), FALSE),
            env_required(e, ty, key, description, default))

or_default(b, e, ty, key, description, default) ==
    Collect(b, FieldMetadata(key, description, to_string(default), FALSE),
            env_or_default(e, ty, key, description, default))

\* example_str.unwrap_or("") is NoneStr.s = <<>> for None.
optional(b, e, ty, key, description, example) ==
    Collect(b, FieldMetadata(key, description, example.s, FALSE),
            env_or_option(e, ty, key, description, example))

\* Faulty variant of validate: the errors are moved out of the builder.
validate_drain(b) ==
    [ok |-> b.errors = <<>>,
     errs |-> IF b.errors = <<>> THEN <<>> ELSE b.errors,
     fields |-> b.fields, errors |-> <<>>]

\* Faulty variant of validate: the builder starts afresh after the check.
validate_restart(b) ==
    [ok |-> b.errors = <<>>,
     errs |-> IF b.errors = <<>> THEN <<>> ELSE b.errors,
     fields |-> IF b.errors = <<>> THEN b.fields ELSE <<>>,
     errors |-> b.errors]

\* validate(&self): the result, and the builder as the call leaves it.
validate(b) ==
    [ok |-> b.errors = <<>>,
     errs |-> IF b.errors = <<>> THEN <<>> ELSE b.errors,
     fields |-> b.fields, errors |-> b.errors]

\* Faulty variant of finish: Err carries the first error only.
finish_first_error(b) ==
    [ok |-> b.errors = <<>>,
     errs |-> IF b.errors = <<>> THEN <<>> ELSE <<Head(b.errors)>>]

\* finish(self): the result; the builder is consumed.
finish(b) ==
    [ok |-> b.errors = <<>>,
     errs |-> IF b.errors = <<>> THEN <<>> ELSE b.errors]

----------------------------------------------------------------------------
(* error.rs: Display for ConfigError; builder.rs: format_config_errors.   *)
(* A text is a sequence of pieces.  The colored crate wraps a piece in    *)
(* an escape sequence when colouring is on and leaves it alone otherwise. *)

Styled(colorize, style, text) ==
    IF colorize THEN <<style>> \o text \o <<"ESC[0m">> ELSE text

\* Faulty variant of the example line: it is written also when the error
\* has no example, with nothing after the "=".
ExampleLine_always(colorize, key, example) ==
    <<"\tExample: ">> \o Styled(colorize, "ESC[1;35m", <<key>>) \o <<"=">>
    \o Styled(colorize, "ESC[36m", example.s) \o <<"\n">>

ExampleLine(colorize, key, example) ==
    IF example.some
    THEN <<"\tExample: ">> \o Styled(colorize, "ESC[1;35m", <<key>>) \o <<"=">>
         \o Styled(colorize, "ESC[36m", example.s) \o <<"\n">>
    ELSE <<>>

Display(colorize, e) ==
    IF e.kind = "MissingEnvVar"
    THEN Styled(colorize, "ESC[1;35m", <<e.key>>)
         \o <<": Is missing from environment and is required", "\n">>
         \o <<"\tDescription: ", e.description, "\n">>
         \o ExampleLine(colorize, e.key, e.example)
    ELSE Styled(colorize, "ESC[1;35m", <<e.key>>)
         \o <<": Invalid value ">>
         \o Styled(colorize, "ESC[31m", <<"'">> \o e.value.s \o <<"'">>)
         \o <<"\n">>
         \o <<"\tDescription: ", e.description, "\n">>
         \o ExampleLine(colorize, e.key, e.example)

\* errors.iter().map(|e| format!("  - {}", e)).collect().join("\n")
RECURSIVE error_summary(_, _)
error_summary(colorize, errs) ==
    IF errs = <<>> THEN <<>>
    ELSE <<"  - ">> \o Display(colorize, Head(errs))
         \o (IF Len(errs) > 1 THEN <<"\n">> ELSE <<>>)
         \o error_summary(colorize, Tail(errs))

\* Reverse of a sequence.
Reverse(s) == [i \in 1..Len(s) |-> s[Len(s) + 1 - i]]

\* Faulty variant of format_config_errors: the blocks run from the last
\* error to the first.
format_config_errors_reversed(colorize, errs) ==
    <<"Configuration failed with ">>
    \o Styled(colorize, "ESC[1;33m", uint_to_string(Len(errs)))
    \o <<" error(s):", "\n">>
    \o error_summary(colorize, Reverse(errs))

format_config_errors(colorize, errs) ==
    <<"Configuration failed with ">>
    \o Styled(colorize, "ESC[1;33m", uint_to_string(Len(errs)))
    \o <<" error(s):", "\n">>
    \o error_summary(colorize, errs)

\* Faulty variant of finish_or_panic: the panic shows the first error only.
finish_or_panic_first(colorize, b) ==
    IF b.errors # <<>>
    THEN [panicked |-> TRUE, text |-> Display(colorize, Head(b.errors))]
    ELSE [panicked |-> FALSE, text |-> <<>>]

\* finish_or_panic: the panic message, or no panic.
finish_or_panic(colorize, b) ==
    IF b.errors # <<>>
    THEN [panicked |-> TRUE, text |-> format_config_errors(colorize, b.errors)]
    ELSE [panicked |-> FALSE, text |-> <<>>]

\* Faulty variant of doc_rows: an empty default/example cell is left empty.
RECURSIVE doc_rows_no_dash(_)
doc_rows_no_dash(fs) ==
    IF fs = <<>> THEN <<>>
    ELSE LET field == Head(fs)
             required_str == IF field.required THEN "Yes" ELSE "No"
         IN  <<"| ", field.key, " | ", required_str, " | ",
               field.description, " | ">>
             \o field.default_str \o <<" |\n">> \o doc_rows_no_dash(Tail(fs))

\* The Markdown text write_docs hands to fs::write.
RECURSIVE doc_rows(_)
doc_rows(fs) ==
    IF fs = <<>> THEN <<>>
    ELSE LET field == Head(fs)
             required_str == IF field.required THEN "Yes" ELSE "No"
             default_display == IF field.default_str = <<>> THEN <<"-">>
                                ELSE field.default_str
         IN  <<"| ", field.key, " | ", required_str, " | ",
               field.description, " | ">>
             \o default_display \o <<" |\n">> \o doc_rows(Tail(fs))

\* Faulty variant of write_docs: the rows are written for a valid build only.
write_docs_valid_only(b) ==
    <<"## Environment Variables Summary\n\n",
      "| Variable | Required | Description | Default/Example |\n",
      "|----------|----------|-------------|------------------|\n">>
    \o (IF b.errors = <<>> THEN doc_rows(b.fields) ELSE <<>>)

write_docs(b) ==
    <<"## Environment Variables Summary\n\n",
      "| Variable | Required | Description | Default/Example |\n",
      "|----------|----------|-------------|------------------|\n">>
    \o doc_rows(b.fields)

----------------------------------------------------------------------------
(* macros/src/lib.rs: what define_config! generates for a schema.  A      *)
(* schema is the sequence of the struct's fields, each with the           *)
(* FieldConfig parsed from its #[field(...)] attribute.                   *)

Field(name, var, description, ty, mode, default, example) ==
    [name |-> name, env_var |-> var, description |-> description,
     ty |-> ty, mode |-> mode, default |-> default, example |-> example]

\* struct { name: String, port: u16, debug_level: Option<u16> }
ServiceConfig ==
    << Field("name", "NAME", "Service name", "String", "Required",
             NoVal, Some(StrVal(app))),
       Field("port", "PORT", "Server port", "u16", "Default",
             U16Val(8080), None),
       Field("debug_level", "DEBUG_LEVEL", "Debug level", "u16", "Optional",
             NoVal, Some(U16Val(3))) >>

Schemas == {ServiceConfig}

\* load_code: the builder call generated for one field.
load_code(b, e, f) ==
    CASE f.mode = "Required" ->
           required(b, e, f.ty, f.env_var, f.description, f.example.v)
      [] f.mode = "Default" ->
           or_default(b, e, f.ty, f.env_var, f.description, f.default)
      [] OTHER ->
           optional(b, e, f.ty, f.env_var, f.description, NoneStr)

\* The state of a load before its first field: the new builder, no result
\* and no call yet.
load_start == [fields |-> new.fields, errors |-> new.errors, rets |-> <<>>,
               io |-> <<>>]

\* The builder, the results and the calls after one more field's call r.
load_impl_step(acc, r) ==
    [fields |-> r.fields, errors |-> r.errors, rets |-> Append(acc.rets, r.ret),
     io |-> acc.io \o r.io]

\* Faulty variant of load_impl_fields: the calls stop at the first field
\* whose call failed.
RECURSIVE load_impl_fields_first_failure(_, _, _)
load_impl_fields_first_failure(sc, acc, e) ==
    IF sc = <<>> \/ acc.errors # <<>> THEN acc
    ELSE load_impl_fields_first_failure(
             Tail(sc), load_impl_step(acc, load_code(acc, e, Head(sc))), e)

\* #(#load_impl_fields)*: the fields' builder calls in declaration order,
\* from the state acc on.  Returns the builder, the sequence of the calls'
\* results and the calls made to the environment and the parsers.
RECURSIVE load_impl_fields(_, _, _)
load_impl_fields(sc, acc, e) ==
    IF sc = <<>> THEN acc
    ELSE load_impl_fields(
             Tail(sc), load_impl_step(acc, load_code(acc, e, Head(sc))), e)

\* #(#load_impl_unwraps),*: an Optional field takes the call's Option as it
\* is; a Required or Default field takes expect(..), which panics on None.
expect_fails(sc, rets) ==
    \E i \in 1..Len(sc) : sc[i].mode # "Optional" /\ ~rets[i].some

load_impl_unwraps(sc, rets) ==
    [i \in 1..Len(sc) |-> IF sc[i].mode = "Optional" THEN rets[i] ELSE rets[i].v]

\* The end of Load::new on the builder b the fields' calls left:
\* builder.finish()?; Ok(Self {..}).
Load_new_end(sc, b) ==
    IF ~finish(b).ok
    THEN [outcome |-> "Err", errs |-> finish(b).errs, config |-> <<>>,
          text |-> <<>>, io |-> b.io]
    ELSE IF expect_fails(sc, b.rets)
    THEN [outcome |-> "panic", errs |-> <<>>, config |-> <<>>,
          text |-> <<"BUG">>, io |-> b.io]
    ELSE [outcome |-> "Ok", errs |-> <<>>,
          config |-> load_impl_unwraps(sc, b.rets), text |-> <<>>,
          io |-> b.io]

\* Load::new's value: Err(errors), Ok(Self {..}), or the panic of expect.
Load_new(sc, e) == Load_new_end(sc, load_impl_fields(sc, load_start, e))

\* The end of Load::load: builder.finish_or_panic(); Self {..}.
Load_load_end(sc, b, r) ==
    IF r.panicked
    THEN [outcome |-> "panic", errs |-> b.errors, config |-> <<>>,
          text |-> r.text, io |-> b.io]
    ELSE IF expect_fails(sc, b.rets)
    THEN [outcome |-> "panic", errs |-> <<>>, config |-> <<>>,
          text |-> <<"BUG">>, io |-> b.io]
    ELSE [outcome |-> "Ok", errs |-> <<>>,
          config |-> load_impl_unwraps(sc, b.rets), text |-> <<>>,
          io |-> b.io]

\* The builder b the fields' calls left, handed to finish_or_panic.
Load_load_finish(colorize, sc, b) ==
    Load_load_end(sc, b, finish_or_panic(colorize, b))

\* Faulty variant of Load::load: the collected errors are not looked at,
\* only expect(..) can panic.
Load_load_unchecked(colorize, sc, e) ==
    Load_load_end(sc, load_impl_fields(sc, load_start, e),
                  [panicked |-> FALSE, text |-> <<>>])

\* Load::load's value: Self {..}, or the panic of finish_or_panic or expect.
Load_load(colorize, sc, e) ==
    Load_load_finish(colorize, sc, load_impl_fields(sc, load_start, e))

\* Load::builder_for_docs: the same calls, no dotenv, the builder returned.
builder_for_docs(sc, e) == load_impl_fields(sc, load_start, e)

\* The field policy that the call generated for a field evaluates.
field_policy(e, f) ==
    CASE f.mode = "Required" ->
           env_required(e, f.ty, f.env_var, f.description, f.example.v)
      [] f.mode = "Default" ->
           env_or_default(e, f.ty, f.env_var, f.description, f.default)
      [] OTHER ->
           env_or_option(e, f.ty, f.env_var, f.description, NoneStr)

----------------------------------------------------------------------------
(* macros/src/lib.rs: define_config! on a struct declaration.  A          *)
(* declaration is a struct with one named field: its declared type        *)
(* (T or Option<T>) and its attributes.  shape tells how #[field ..] is    *)
(* written: "none" (no such attribute), "path" (#[field], no list) or     *)
(* "list" (#[field(..)]); parsed is the HashMap that parse_field_list     *)
(* makes of the list, key -> MetaValue, Absent for a key not in the map.  *)

AttrKeys == {"env", "doc", "example", "required", "default", "optional"}

\* enum MetaValue { Str, Expr, Flag }, and a key that is not in the map.
Absent == [kind |-> "Absent", s |-> "-", v |-> NoVal]
MetaFlag == [kind |-> "Flag", s |-> "-", v |-> NoVal]
MetaStr(s) == [kind |-> "Str", s |-> s, v |-> NoVal]
MetaExpr(v) == [kind |-> "Expr", s |-> "-", v |-> v]

\* A declared field type: T (option = FALSE) or Option<T>.
Plain_type(inner) == [option |-> FALSE, inner |-> inner]
Option_type(inner) == [option |-> TRUE, inner |-> inner]

\* The name a type is written with where a parse target is named.
type_name(ty) == IF ty.option THEN "Option" ELSE ty.inner

\* str::trim on the doc strings that occur.
trim(s) == IF s = " Server port " THEN "Server port" ELSE s

\* syn::Error: the expansion is a compile error with this message.
CompileError(msg) ==
    [ok |-> FALSE, err |-> msg, env_var |-> "-", description |-> "-",
     example |-> None, mode |-> "-", default |-> NoVal]

\* Variant of the mode selection that looks at `optional` before
\* `default = value`.
parse_mode_optional_first(parsed) ==
    IF parsed["required"].kind # "Absent"
    THEN [ok |-> TRUE, mode |-> "Required", default |-> NoVal]
    ELSE IF parsed["optional"].kind # "Absent"
    THEN [ok |-> TRUE, mode |-> "Optional", default |-> NoVal]
    ELSE IF parsed["default"].kind = "Expr"
    THEN [ok |-> TRUE, mode |-> "Default", default |-> parsed["default"].v]
    ELSE [ok |-> FALSE, mode |-> "-", default |-> NoVal]

\* parse_field_config, the mode: required, else default = value, else
\* optional, else none.
parse_mode(parsed) ==
    IF parsed["required"].kind # "Absent"
    THEN [ok |-> TRUE, mode |-> "Required", default |-> NoVal]
    ELSE IF parsed["default"].kind = "Expr"
    THEN [ok |-> TRUE, mode |-> "Default", default |-> parsed["default"].v]
    ELSE IF parsed["optional"].kind # "Absent"
    THEN [ok |-> TRUE, mode |-> "Optional", default |-> NoVal]
    ELSE [ok |-> FALSE, mode |-> "-", default |-> NoVal]

\* The FieldConfig of a field whose env, doc and mode were accepted.
FieldConfig(parsed, description, m) ==
    [ok |-> TRUE, err |-> "-", env_var |-> parsed["env"].s,
     description |-> description,
     example |-> IF parsed["example"].kind = "Expr"
                 THEN Some(parsed["example"].v) ELSE None,
     mode |-> m.mode, default |-> m.default]

\* parse_field_config from the mode on, env and doc being accepted.
parse_field_config_mode(parsed, description, m) ==
    IF m.ok THEN FieldConfig(parsed, description, m)
    ELSE CompileError(
           "field must have one of: required, optional, or default = value")

parse_field_config(shape, parsed, allow_missing_docs) ==
    IF shape = "none"
    THEN CompileError("field must have #[field(...)] attribute with env, doc, and mode (required/default/optional)")
    ELSE IF shape # "list"
    THEN CompileError("field attribute must be a list: #[field(env = \"...\", ...)]")
    ELSE IF parsed["env"].kind # "Str"
    THEN CompileError("field must have env = \"VAR_NAME\"")
    ELSE IF parsed["doc"].kind = "Str"
    THEN parse_field_config_mode(parsed, trim(parsed["doc"].s),
                                 parse_mode(parsed))
    ELSE IF parsed["doc"].kind = "Absent" /\ allow_missing_docs
    THEN parse_field_config_mode(parsed, "", parse_mode(parsed))
    ELSE IF parsed["doc"].kind = "Absent"
    THEN CompileError("field must have doc = \"description\" (or use #[allow(missing_docs)] on struct)")
    ELSE CompileError("doc must be a string literal")

\* Variant of extract_option_type that takes every type for an Option.
extract_option_type_any(ty) == [is_option |-> TRUE, inner |-> ty.inner]

\* extract_option_type: (is_option, inner_type); a type that is no
\* Option<T> comes back as it is.
extract_option_type(ty) ==
    IF ty.option THEN [is_option |-> TRUE, inner |-> ty.inner]
    ELSE [is_option |-> FALSE, inner |-> type_name(ty)]

\* An expansion: accepted with the generated schema and the types of the
\* struct's fields, or a compile error.
Expanded(f, ty) == [ok |-> TRUE, err |-> "-", schema |-> <<f>>, types |-> <<ty>>]
Rejected(msg) == [ok |-> FALSE, err |-> msg, schema |-> <<>>, types |-> <<>>]

\* generate_config for the field of the struct, config being its parsed
\* FieldConfig and opt what extract_option_type says of its type: the
\* load code of the field's mode.
generate_config_field(name, ty, config, opt) ==
    IF ~config.ok THEN Rejected(config.err)
    ELSE IF config.mode = "Required"
    THEN IF ~config.example.some
         THEN Rejected("required fields must have an #[example] attribute")
         ELSE Expanded(Field(name, config.env_var, config.description,
                             type_name(ty), "Required", NoVal,
                             config.example), ty)
    ELSE IF config.mode = "Default"
    THEN Expanded(Field(name, config.env_var, config.description,
                        type_name(ty), "Default", config.default,
                        config.example), ty)
    ELSE IF ~opt.is_option
    THEN Rejected("optional fields must have type Option<T>")
    ELSE Expanded(Field(name, config.env_var, config.description,
                        opt.inner, "Optional", NoVal, config.example), ty)

generate_config(decl) ==
    generate_config_field(
        decl.name, decl.ty,
        parse_field_config(decl.shape, decl.parsed, decl.allow_missing_docs),
        extract_option_type(decl.ty))

\* required::<T> and or_default::<T> need T: FromStr + Display + Clone,
\* which Option<T> is not: the generated code of such a field does not
\* compile.
bounds_hold(x) ==
    \A i \in 1..Len(x.schema) :
       x.schema[i].mode # "Optional" => ~x.types[i].option

\* No define_config! expanded yet.
NoDeclaration ==
    [name |-> "-", ty |-> Plain_type("-"), shape |-> "none",
     parsed |-> [k \in AttrKeys |-> Absent], allow_missing_docs |-> FALSE]

NoExpansion == [done |-> FALSE, decl |-> NoDeclaration, r |-> Rejected("-")]

----------------------------------------------------------------------------
(* macros/src/lib.rs: the static metadata of a schema.  The generated     *)
(* metadata() returns __CONFIG_META_<NAME>.get_or_init(|| <Name>Meta {..}) *)
(* on a static OnceLock.                                                  *)

\* ConfigFieldMeta::required(key, description, example)
ConfigFieldMeta_required(key, description, example) ==
    [key |-> key, description |-> description, default |-> example,
     required |-> TRUE]

\* ConfigFieldMeta::optional(key, description, default)
ConfigFieldMeta_optional(key, description, default) ==
    [key |-> key, description |-> description, default |-> default,
     required |-> FALSE]

\* <T as Default>::default()
Default_default(ty) ==
    CASE ty = "String" -> StrVal(<<>>)
      [] OTHER -> U16Val(0)

\* meta_init: the initializer generated for one field of <Name>Meta.
meta_init(f) ==
    CASE f.mode = "Required" ->
           ConfigFieldMeta_required(f.env_var, f.description, f.example.v)
      [] f.mode = "Default" ->
           ConfigFieldMeta_optional(f.env_var, f.description, f.default)
      [] OTHER ->
           ConfigFieldMeta_optional(f.env_var, f.description,
                                    IF f.example.some THEN f.example.v
                                    ELSE Default_default(f.ty))

\* <Name>Meta { #(#meta_field_inits),* }: the value the closure builds.
meta_field_inits(sc) == [i \in 1..Len(sc) |-> meta_init(sc[i])]

\* The OnceLock: incomplete, running (one caller is inside the closure) or
\* complete with the value stored.  inits counts the stores; instance
\* names the stored value (0: none).
NoMeta == [state |-> "incomplete", value |-> <<>>, inits |-> 0, instance |-> 0]

\* Faulty variant of get_or_init: a caller that finds no value runs the
\* closure, whether or not another caller is running it.
get_or_init_unsynchronized(c) ==
    IF c.state = "complete" THEN "return" ELSE "run"

\* OnceLock::get_or_init, on entry: a caller returns the stored value,
\* runs the closure (the first caller), or blocks until the running
\* caller has stored the value.
get_or_init(c) ==
    CASE c.state = "complete" -> "return"
      [] c.state = "incomplete" -> "run"
      [] OTHER -> "wait"

----------------------------------------------------------------------------
(* The program: one ConfigBuilder driven by hand, and the generated Load  *)
(* functions.  `last` is the latest call, what it returned and (io) the   *)
(* calls it made to env::var and to the parsers; `calls`                  *)
(* logs, for the builder in hand, each record call's key and the result   *)
(* its field policy returned.  last.hist tells what preceded the call:    *)
(* "after_validate" for a record call that follows a validate(),          *)
(* "repeat" for a validate() that follows a validate(), "revalidate" for  *)
(* a validate() that follows a record call made after a validate().       *)

FieldType(k) ==
    CASE k = "NAME" -> "String"
      [] k = "APP_ENV" -> "Environment"
      [] OTHER -> "u16"

Description(k) ==
    CASE k = "NAME" -> "Service name"
      [] k = "PORT" -> "Server port"
      [] k = "APP_ENV" -> "Deployment environment"
      [] OTHER -> "Debug level"

\* The example (Required) or default (Default) passed for a key.
Arg(k) ==
    CASE k = "NAME" -> StrVal(app)
      [] k = "PORT" -> U16Val(8080)
      [] k = "APP_ENV" -> Dev
      [] OTHER -> U16Val(3)

\* The example passed to optional(): Some("3") for DEBUG_LEVEL, Some("dev")
\* for APP_ENV, else None.
OptExample(k) ==
    CASE k = "DEBUG_LEVEL" -> SomeStr(s3)
      [] k = "APP_ENV" -> SomeStr(dev)
      [] OTHER -> NoneStr

Threads == 1..NumThreads

\* A thread outside metadata(); seen is the instance its latest call
\* returned (0: none yet), blocked whether that call had to wait.
Idle == [pc |-> "idle", seen |-> 0, blocked |-> FALSE]

NoCall ==
    [op |-> "new", key |-> "-", ty |-> "-", ok |-> TRUE, ret |-> None,
     pushed |-> 0, errs |-> <<>>, text |-> <<>>, config |-> <<>>,
     schema |-> <<>>, hist |-> "-", io |-> <<>>]

\* The field policy a record call of the given mode evaluates.
Policy(e, mode, k) ==
    CASE mode = "Required" ->
           env_required(e, FieldType(k), k, Description(k), Arg(k))
      [] mode = "Default" ->
           env_or_default(e, FieldType(k), k, Description(k), Arg(k))
      [] OTHER ->
           env_or_option(e, FieldType(k), k, Description(k), OptExample(k))

Logged(mode, k, r) == [key |-> k, mode |-> mode, ok |-> r.ok, e |-> r.e]

Builder == [fields |-> fields, errors |-> errors]

Init ==
    /\ env \in [Keys -> UNION {EnvDomain(k) : k \in Keys}]
    /\ \A k \in Keys : env[k] \in EnvDomain(k)
    /\ open = FALSE
    /\ fields = <<>>
    /\ errors = <<>>
    /\ calls = <<>>
    /\ last = NoCall
    /\ cell = NoMeta
    /\ threads = [t \in Threads |-> Idle]
    /\ expansion = NoExpansion

\* ConfigBuilder::new(), when no builder is in hand.
New ==
    /\ ~open
    /\ open' = TRUE
    /\ fields' = new.fields
    /\ errors' = new.errors
    /\ calls' = <<>>
    /\ last' = NoCall
    /\ UNCHANGED <<env, statics>>

Recorded(op, mode, k, r) ==
    /\ fields' = r.fields
    /\ errors' = r.errors
    /\ calls' = Append(calls, Logged(mode, k, Policy(env, mode, k)))
    /\ last' = [NoCall EXCEPT !.op = op, !.key = k, !.ty = FieldType(k),
                              !.ret = r.ret,
                              !.pushed = Len(r.errors) - Len(errors),
                              !.io = r.io,
                              !.hist = IF last.op = "validate"
                                       THEN "after_validate" ELSE "-"]
    /\ UNCHANGED <<env, open, statics>>

Required(k) ==
    /\ open
    /\ Len(fields) < MaxCalls
    /\ Recorded("required", "Required", k,
                required(Builder, env, FieldType(k), k, Description(k), Arg(k)))

OrDefault(k) ==
    /\ open
    /\ Len(fields) < MaxCalls
    /\ Recorded("or_default", "Default", k,
                or_default(Builder, env, FieldType(k), k, Description(k), Arg(k)))

Optional(k) ==
    /\ open
    /\ Len(fields) < MaxCalls
    /\ Recorded("optional", "Optional", k,
                optional(Builder, env, FieldType(k), k, Description(k),
                         OptExample(k)))

Validate ==
    /\ open
    /\ LET r == validate(Builder)
       IN  /\ last' = [NoCall EXCEPT
                        !.op = "validate", !.ok = r.ok, !.errs = r.errs,
                        !.hist = CASE last.op = "validate" /\ last.hist = "-"
                                        -> "repeat"
                                   [] last.op = "validate" -> last.hist
                                   [] last.hist = "after_validate" -> "revalidate"
                                   [] OTHER -> "-"]
           /\ fields' = r.fields
           /\ errors' = r.errors
    /\ UNCHANGED <<env, open, calls, statics>>

\* Faulty variant of finish: finish(&self) borrows the builder, which stays
\* in hand as after validate().
Finish_borrowing ==
    /\ open
    /\ LET r == finish(Builder)
       IN  last' = [NoCall EXCEPT !.op = "finish", !.ok = r.ok, !.errs = r.errs]
    /\ UNCHANGED <<env, open, fields, errors, calls, statics>>

\* finish(self) consumes the builder.
Finish ==
    /\ open
    /\ LET r == finish(Builder)
       IN  last' = [NoCall EXCEPT !.op = "finish", !.ok = r.ok, !.errs = r.errs]
    /\ open' = FALSE
    /\ fields' = <<>>
    /\ errors' = <<>>
    /\ UNCHANGED <<env, calls, statics>>

\* finish_or_panic(self) consumes the builder; ok: it returned normally.
FinishOrPanic ==
    /\ open
    /\ \E colorize \in BOOLEAN :
         LET r == finish_or_panic(colorize, Builder)
         IN  last' = [NoCall EXCEPT !.op = "finish_or_panic",
                                    !.ok = ~r.panicked, !.text = r.text]
    /\ open' = FALSE
    /\ fields' = <<>>
    /\ errors' = <<>>
    /\ UNCHANGED <<env, calls, statics>>

\* write_docs(&self, path): ok is whether fs::write succeeded.
WriteDocs ==
    /\ open
    /\ \E written \in BOOLEAN :
         last' = [NoCall EXCEPT !.op = "write_docs", !.ok = written,
                                !.text = write_docs(Builder)]
    /\ UNCHANGED <<env, open, fields, errors, calls, statics>>

\* <Schema as Load>::new()
LoadNew ==
    /\ ~open
    /\ \E sc \in Schemas, file \in DotFiles :
      \E r \in {Load_new(sc, dotenv(env, file))} :
          /\ env' = dotenv(env, file)
          /\ last' = [NoCall EXCEPT !.op = "Load::new", !.ok = r.outcome = "Ok",
                                    !.errs = r.errs, !.text = r.text,
                                    !.config = r.config, !.schema = sc,
                                    !.io = r.io]
          /\ calls' = <<>>
          /\ UNCHANGED <<open, fields, errors, statics>>

\* <Schema as Load>::load()
LoadLoad ==
    /\ ~open
    /\ \E sc \in Schemas, file \in DotFiles, colorize \in BOOLEAN :
      \E r \in {Load_load(colorize, sc, dotenv(env, file))} :
          /\ env' = dotenv(env, file)
          /\ last' = [NoCall EXCEPT !.op = "Load::load", !.ok = r.outcome = "Ok",
                                    !.errs = r.errs, !.text = r.text,
                                    !.config = r.config, !.schema = sc,
                                    !.io = r.io]
          /\ calls' = <<>>
          /\ UNCHANGED <<open, fields, errors, statics>>

\* <Schema as Load>::builder_for_docs(): the returned builder is the one in
\* hand from now on.
BuilderForDocs ==
    /\ ~open
    /\ \E sc \in Schemas :
         LET b == builder_for_docs(sc, env)
         IN  /\ fields' = b.fields
             /\ errors' = b.errors
             /\ calls' = [i \in 1..Len(sc) |->
                            Logged(sc[i].mode, sc[i].env_var,
                                   field_policy(env, sc[i]))]
             /\ last' = [NoCall EXCEPT !.op = "builder_for_docs", !.schema = sc]
    /\ open' = TRUE
    /\ UNCHANGED <<env, statics>>

Next ==
    \/ New
    \/ \E k \in Keys : Required(k)
    \/ \E k \in Keys : OrDefault(k)
    \/ \E k \in Keys : Optional(k)
    \/ Validate
    \/ Finish
    \/ FinishOrPanic
    \/ WriteDocs
    \/ LoadNew
    \/ LoadLoad
    \/ BuilderForDocs

Spec == Init /\ [][Next]_vars

----------------------------------------------------------------------------
(* A program with one variable, APP_ENV, that holds an Environment: it is *)
(* parsed directly (Environment::from_str) and through a builder whose    *)
(* fields are of type Environment.                                        *)

EnvironmentKeys == {"APP_ENV"}

\* The words of at most n letters over the alphabet.
Words(alphabet, n) == UNION {[1..m -> alphabet] : m \in 0..n}

\* What APP_ENV may be set to: the four accepted spellings, spellings that
\* differ in case or by a blank, another name, and every short word over
\* the letters of "dev" (the empty string included).
EnvironmentInputs ==
    {prod, production, dev, development, staging,
     <<"P", "R", "O", "D">>, <<"P", "r", "o", "d">>, <<"D", "E", "V">>,
     <<"p", "r", "o", "d", " ">>, <<" ", "d", "e", "v">>}
    \cup Words({"d", "e", "v", "D"}, MaxWordLen)

InitEnvironment ==
    /\ env \in {[k \in EnvironmentKeys |-> v] :
                   v \in {NotPresent} \cup {Utf8(s) : s \in EnvironmentInputs}}
    /\ open = FALSE
    /\ fields = <<>>
    /\ errors = <<>>
    /\ calls = <<>>
    /\ last = NoCall
    /\ cell = NoMeta
    /\ threads = [t \in Threads |-> Idle]
    /\ expansion = NoExpansion

\* value.parse::<Environment>() on the string APP_ENV holds; errs is the
\* parser's own error.
FromStr(k) ==
    /\ env_var(env, k).ok
    /\ LET p == Environment_from_str(env_var(env, k).s)
       IN  last' = [NoCall EXCEPT !.op = "Environment::from_str", !.key = k,
                                  !.ty = "Environment", !.ok = p.ok,
                                  !.ret = IF p.ok THEN Some(p.v) ELSE None,
                                  !.errs = IF p.ok THEN <<>> ELSE <<p.err>>]
    /\ UNCHANGED <<env, open, fields, errors, calls, statics>>

NextEnvironment ==
    \/ New
    \/ \E k \in EnvironmentKeys : FromStr(k)
    \/ \E k \in EnvironmentKeys : Required(k)
    \/ \E k \in EnvironmentKeys : OrDefault(k)
    \/ \E k \in EnvironmentKeys : Optional(k)
    \/ Finish

SpecEnvironment == InitEnvironment /\ [][NextEnvironment]_vars

----------------------------------------------------------------------------
(* A program whose threads call ServiceConfig::metadata() while the       *)
(* configuration is loaded: the static OnceLock of the schema.            *)

\* A thread calls metadata(): get_or_init on the static.
MetadataCall(t) ==
    /\ threads[t].pc = "idle"
    /\ LET todo == get_or_init(cell)
       IN  CASE todo = "return" ->
                  /\ threads' = [threads EXCEPT ![t].pc = "returned",
                                                ![t].seen = cell.instance]
                  /\ UNCHANGED cell
             [] todo = "run" ->
                  /\ threads' = [threads EXCEPT ![t].pc = "run"]
                  /\ cell' = [cell EXCEPT !.state = "running"]
             [] OTHER ->
                  /\ threads' = [threads EXCEPT ![t].pc = "wait",
                                                ![t].blocked = TRUE]
                  /\ UNCHANGED cell
    /\ UNCHANGED <<env, open, fields, errors, calls, last, expansion>>

\* The closure has built the metadata value: it is stored and returned.
MetadataInit(t) ==
    /\ threads[t].pc = "run"
    /\ cell' = [state |-> "complete", value |-> meta_field_inits(ServiceConfig),
                inits |-> cell.inits + 1, instance |-> cell.inits + 1]
    /\ threads' = [threads EXCEPT ![t].pc = "returned",
                                  ![t].seen = cell.inits + 1]
    /\ UNCHANGED <<env, open, fields, errors, calls, last, expansion>>

\* A blocked caller goes on once the value is stored, and returns it.
MetadataWake(t) ==
    /\ threads[t].pc = "wait"
    /\ cell.state = "complete"
    /\ threads' = [threads EXCEPT ![t].pc = "returned",
                                  ![t].seen = cell.instance]
    /\ UNCHANGED <<cell, env, open, fields, errors, calls, last, expansion>>

\* The thread goes on with the reference it got, free to call again.
MetadataDone(t) ==
    /\ threads[t].pc = "returned"
    /\ threads' = [threads EXCEPT ![t].pc = "idle"]
    /\ UNCHANGED <<cell, env, open, fields, errors, calls, last, expansion>>

NextMeta ==
    \/ \E t \in Threads : MetadataCall(t)
    \/ \E t \in Threads : MetadataInit(t)
    \/ \E t \in Threads : MetadataWake(t)
    \/ \E t \in Threads : MetadataDone(t)
    \/ LoadNew
    \/ LoadLoad

SpecMeta == Init /\ [][NextMeta]_vars

----------------------------------------------------------------------------
(* A program whose schema is declared through define_config!: the macro   *)
(* expands the declaration once, at compile time, and the program then    *)
(* calls the Load functions the expansion generated, if there is one.     *)

\* The attribute lists a field may be declared with.
FieldAttrs ==
    {[k \in AttrKeys |->
        CASE k = "env" -> e
          [] k = "doc" -> d
          [] k = "example" -> x
          [] k = "required" -> r
          [] k = "default" -> v
          [] OTHER -> o] :
     e \in {Absent, MetaStr("PORT")},
     d \in {Absent, MetaFlag, MetaStr("Server port"), MetaStr(" Server port ")},
     x \in {Absent, MetaExpr(U16Val(8080))},
     r \in {Absent, MetaFlag},
     v \in {Absent, MetaFlag, MetaExpr(U16Val(3))},
     o \in {Absent, MetaFlag}}

\* struct { port: u16 } or struct { port: Option<u16> }, the field with a
\* #[field(..)] list, with a bare #[field], or with no field attribute.
Declarations ==
    {[name |-> "port", ty |-> ty, shape |-> "list", parsed |-> p,
      allow_missing_docs |-> a] :
     ty \in {Plain_type("u16"), Option_type("u16")}, p \in FieldAttrs,
     a \in BOOLEAN}
    \cup {[NoDeclaration EXCEPT !.name = "port", !.ty = Plain_type("u16"),
                               !.shape = s] : s \in {"none", "path"}}

\* define_config! { .. }: the expansion of the program's declaration.
DefineConfig ==
    /\ ~expansion.done
    /\ \E decl \in Declarations :
         expansion' = [done |-> TRUE, decl |-> decl, r |-> generate_config(decl)]
    /\ UNCHANGED <<env, open, fields, errors, calls, last, cell, threads>>

\* <Schema as Load>::new() of the expanded declaration.
ExpandedNew ==
    /\ ~open
    /\ expansion.r.ok
    /\ bounds_hold(expansion.r)
    /\ \E file \in DotFiles :
      \E r \in {Load_new(expansion.r.schema, dotenv(env, file))} :
          /\ env' = dotenv(env, file)
          /\ last' = [NoCall EXCEPT !.op = "Load::new", !.ok = r.outcome = "Ok",
                                    !.errs = r.errs, !.text = r.text,
                                    !.config = r.config,
                                    !.schema = expansion.r.schema,
                                    !.io = r.io]
          /\ calls' = <<>>
          /\ UNCHANGED <<open, fields, errors, statics>>

\* <Schema as Load>::load() of the expanded declaration.
ExpandedLoad ==
    /\ ~open
    /\ expansion.r.ok
    /\ bounds_hold(expansion.r)
    /\ \E file \in DotFiles, colorize \in BOOLEAN :
      \E r \in {Load_load(colorize, expansion.r.schema, dotenv(env, file))} :
          /\ env' = dotenv(env, file)
          /\ last' = [NoCall EXCEPT !.op = "Load::load", !.ok = r.outcome = "Ok",
                                    !.errs = r.errs, !.text = r.text,
                                    !.config = r.config,
                                    !.schema = expansion.r.schema,
                                    !.io = r.io]
          /\ calls' = <<>>
          /\ UNCHANGED <<open, fields, errors, statics>>

NextMacro ==
    \/ DefineConfig
    \/ ExpandedNew
    \/ ExpandedLoad

SpecMacro == Init /\ [][NextMacro]_vars

----------------------------------------------------------------------------
(* Properties *)

RecordOps == {"required", "or_default", "optional"}

\* The variable is set to a string that parses into the type.
Parses(ty, v) == v.kind = "Unicode" /\ Parse(ty, v.s).ok

\* The variable is set, and what it is set to does not parse into the type.
PresentUnparseable(ty, v) == v.kind # "NotPresent" /\ ~Parses(ty, v)

\* The variable is set to a string, and the string does not parse.
StringUnparseable(ty, v) == v.kind = "Unicode" /\ ~Parse(ty, v.s).ok

LastError == errors[Len(errors)]

\* The call just made appended exactly one error of the kind, for its key.
PushedOne(kind) ==
    /\ last.pushed = 1
    /\ LastError.kind = kind
    /\ LastError.key = last.key

\* C1: a Default-mode field whose key is absent succeeds with the declared
\* default and appends no error; one whose key is present with a value that
\* does not parse into the type appends exactly one InvalidEnvironment
\* error and returns None, never the default.
C1_DefaultPolicy ==
    last.op = "or_default" =>
      /\ env[last.key].kind = "NotPresent" =>
           last.ret = Some(Arg(last.key)) /\ last.pushed = 0
      /\ PresentUnparseable(last.ty, env[last.key]) =>
           PushedOne("InvalidEnvironment") /\ last.ret = None

\* C1, for the values env::var can read: a key set to a string that does
\* not parse is an InvalidEnvironment error, an absent key is the default.
C1_DefaultPolicy_Strings ==
    last.op = "or_default" =>
      /\ env[last.key].kind = "NotPresent" =>
           last.ret = Some(Arg(last.key)) /\ last.pushed = 0
      /\ StringUnparseable(last.ty, env[last.key]) =>
           PushedOne("InvalidEnvironment") /\ last.ret = None

\* C2: an Optional-mode field whose key is absent yields None and no
\* error; a parseable value yields Some(value) and no error; a present
\* value that does not parse appends exactly one InvalidEnvironment error
\* instead of silently yielding None.
C2_OptionalPolicy ==
    last.op = "optional" =>
      /\ env[last.key].kind = "NotPresent" =>
           last.ret = None /\ last.pushed = 0
      /\ Parses(last.ty, env[last.key]) =>
           last.ret = Some(Parse(last.ty, env[last.key].s).v) /\ last.pushed = 0
      /\ PresentUnparseable(last.ty, env[last.key]) =>
           PushedOne("InvalidEnvironment") /\ last.ret = None

\* C2, for the values env::var can read.
C2_OptionalPolicy_Strings ==
    last.op = "optional" =>
      /\ env[last.key].kind = "NotPresent" =>
           last.ret = None /\ last.pushed = 0
      /\ Parses(last.ty, env[last.key]) =>
           last.ret = Some(Parse(last.ty, env[last.key].s).v) /\ last.pushed = 0
      /\ StringUnparseable(last.ty, env[last.key]) =>
           PushedOne("InvalidEnvironment") /\ last.ret = None

\* C3: a Required-mode field whose key is absent appends exactly one
\* MissingEnvVar error; a parseable value is returned as Some(value) with
\* no error; a present value that does not parse appends exactly one
\* InvalidEnvironment error; no failure returns the example.
C3_RequiredPolicy ==
    last.op = "required" =>
      /\ env[last.key].kind = "NotPresent" =>
           PushedOne("MissingEnvVar") /\ last.ret = None
      /\ Parses(last.ty, env[last.key]) =>
           last.ret = Some(Parse(last.ty, env[last.key].s).v) /\ last.pushed = 0
      /\ PresentUnparseable(last.ty, env[last.key]) =>
           PushedOne("InvalidEnvironment") /\ last.ret = None

\* C3, for the values env::var can read.
C3_RequiredPolicy_Strings ==
    last.op = "required" =>
      /\ env[last.key].kind = "NotPresent" =>
           PushedOne("MissingEnvVar") /\ last.ret = None
      /\ Parses(last.ty, env[last.key]) =>
           last.ret = Some(Parse(last.ty, env[last.key].s).v) /\ last.pushed = 0
      /\ StringUnparseable(last.ty, env[last.key]) =>
           PushedOne("InvalidEnvironment") /\ last.ret = None

\* The errors of the logged calls whose policy failed, in call order.
FailedErrors(log) ==
    LET failed == SelectSeq(log, LAMBDA c : ~c.ok)
    IN  [i \in 1..Len(failed) |-> failed[i].e]

LogKeys(log) == [i \in 1..Len(log) |-> log[i].key]

\* What evaluating a schema's fields against an environment logs.
SchemaLog(sc, e) ==
    [i \in 1..Len(sc) |-> Logged(sc[i].mode, sc[i].env_var, field_policy(e, sc[i]))]

\* The segments of a text between the occurrences of a piece.
RECURSIVE SplitFrom(_, _, _, _)
SplitFrom(text, sep, cur, acc) ==
    IF text = <<>> THEN Append(acc, cur)
    ELSE IF Head(text) = sep
         THEN SplitFrom(Tail(text), sep, <<>>, Append(acc, cur))
         ELSE SplitFrom(Tail(text), sep, Append(cur, Head(text)), acc)

Split(text, sep) == SplitFrom(text, sep, <<>>, <<>>)

\* C4: after N record calls of which M fail, the builder in hand holds N
\* metadata entries in call order and exactly the M errors of the failing
\* calls in call order; a failure does not stop later fields from being
\* evaluated.
C4_Aggregation ==
    open =>
      /\ Len(fields) = Len(calls)
      /\ \A i \in 1..Len(calls) : fields[i].key = calls[i].key
      /\ errors = FailedErrors(calls)

\* C4 witness: three calls, the first and the third failed, the second did not.
C4_Witness ==
    /\ open
    /\ Len(fields) = 3
    /\ ~calls[1].ok /\ calls[2].ok /\ ~calls[3].ok
    /\ Len(errors) = 2

\* C5: validate() is idempotent and free of side effects: a call leaves
\* the metadata and error lists as they were, and a call that follows
\* another returns what the first returned.
C5_ValidateIdempotent ==
    [][last'.op = "validate" =>
         /\ fields' = fields
         /\ errors' = errors
         /\ last.op = "validate" =>
              last'.ok = last.ok /\ last'.errs = last.errs]_vars

\* C5 witness: validate() called right after validate(), with errors collected.
C5_Witness ==
    /\ last.op = "validate"
    /\ last.hist = "repeat"
    /\ ~last.ok
    /\ Len(last.errs) = 2

\* C6: finish() returns Ok iff no record call failed and otherwise Err with
\* every collected error; Load::new returns Ok(config) iff every declared
\* field evaluated successfully and otherwise all the errors.
C6_AggregateIffNoFailure ==
    /\ last.op = "finish" =>
         /\ last.ok <=> \A i \in 1..Len(calls) : calls[i].ok
         /\ last.errs = FailedErrors(calls)
    /\ last.op = "Load::new" =>
         LET log == SchemaLog(last.schema, env)
         IN  /\ last.ok <=> \A i \in 1..Len(log) : log[i].ok
             /\ last.errs = FailedErrors(log)
             /\ last.ok => Len(last.config) = Len(last.schema)
             /\ ~last.ok => last.config = <<>> /\ last.text = <<>>

\* C6 witness: finish() on a builder two of whose calls failed.
C6_Witness ==
    /\ last.op = "finish"
    /\ ~last.ok
    /\ Len(last.errs) = 2
    /\ Len(calls) = 2

\* The panic text is the header with the count n of the errors followed by
\* one block per error, in order, for one of the two colour settings.
Aggregated(text, errs) ==
    \E colorize \in BOOLEAN :
      LET segs == Split(text, "  - ")
          n == Len(errs)
      IN  /\ Len(segs) = n + 1
          /\ segs[1] = <<"Configuration failed with ">>
                       \o Styled(colorize, "ESC[1;33m", uint_to_string(n))
                       \o <<" error(s):", "\n">>
          /\ \A i \in 1..n :
               segs[i + 1] = Display(colorize, errs[i])
                             \o (IF i < n THEN <<"\n">> ELSE <<>>)

\* C7: finish_or_panic returns normally iff no error was collected; when
\* it panics, the message carries the count of the errors and one block
\* for each of them, not only the first.  Load::load panics the same way.
C7_PanicAggregates ==
    /\ last.op = "finish_or_panic" =>
         /\ last.ok <=> FailedErrors(calls) = <<>>
         /\ ~last.ok => Aggregated(last.text, FailedErrors(calls))
    /\ last.op = "Load::load" /\ ~last.ok =>
         Aggregated(last.text, FailedErrors(SchemaLog(last.schema, env)))

\* C7 witness: finish_or_panic panicked with two errors collected.
C7_Witness ==
    /\ last.op = "finish_or_panic"
    /\ ~last.ok
    /\ Len(FailedErrors(calls)) = 2

\* The variable names of the table rows of a write_docs text, in order.
RowKeys(text) ==
    LET segs == Split(text, "| ")
    IN  [i \in 1..(Len(segs) - 1) |-> segs[i + 1][1]]

\* C8: write_docs renders one table row per recorded field, in
\* declaration order, whether no, some or all fields failed.
C8_DocsRowPerField ==
    last.op = "write_docs" => RowKeys(last.text) = LogKeys(calls)

\* C8 witness: the docs of a schema of three fields all of which failed.
C8_Witness ==
    /\ last.op = "write_docs"
    /\ Len(calls) = 3
    /\ \A i \in 1..3 : ~calls[i].ok
    /\ Len(RowKeys(last.text)) = 3

\* C9: validate() leaves the builder open: a record call that follows it
\* appends to the same metadata and error lists, which then hold the
\* records made before and after the validate(), and every validate() or
\* finish() returns the errors of all the record calls made so far.
C9_ValidateKeepsOpen ==
    [][/\ last'.op = "validate" => open /\ open'
       /\ (last.op = "validate" /\ last'.op \in RecordOps) =>
            /\ open'
            /\ Len(fields') = Len(fields) + 1
            /\ SubSeq(fields', 1, Len(fields)) = fields
            /\ fields'[Len(fields')].key = last'.key
            /\ Len(errors') = Len(errors) + last'.pushed
            /\ SubSeq(errors', 1, Len(errors)) = errors
            /\ [i \in 1..Len(fields') |-> fields'[i].key] = LogKeys(calls')
            /\ errors' = FailedErrors(calls')
       /\ last'.op \in {"validate", "finish"} =>
            last'.errs = FailedErrors(calls')]_vars

\* C9 witness: validate() after a record call that itself followed a
\* validate(), with two errors collected.
C9_Witness ==
    /\ last.op = "validate"
    /\ last.hist = "revalidate"
    /\ Len(fields) = 2
    /\ Len(last.errs) = 2

\* C10: Required NAME, Default PORT (8080), Optional DEBUG_LEVEL, with
\* NAME=svc and PORT and DEBUG_LEVEL unset when the fields are evaluated:
\* the load returns {name: "svc", port: 8080, debug_level: None}, no error.
C10_EndToEndSuccess ==
    ( /\ last.op \in {"Load::new", "Load::load"}
      /\ last.schema = ServiceConfig
      /\ env["NAME"] = Utf8(svc)
      /\ env["PORT"] = NotPresent
      /\ env["DEBUG_LEVEL"] = NotPresent )
    => /\ last.ok
       /\ last.config = <<StrVal(svc), U16Val(8080), None>>
       /\ last.errs = <<>>

\* C10 witness: Load::new returned for that schema and environment.
C10_Witness ==
    /\ last.op = "Load::new"
    /\ last.schema = ServiceConfig
    /\ env["NAME"] = Utf8(svc)
    /\ env["PORT"] = NotPresent
    /\ env["DEBUG_LEVEL"] = NotPresent
    /\ Len(last.config) = 3

\* C11: Required NAME, Default PORT (8080), Optional DEBUG_LEVEL, with
\* NAME unset and PORT=not-a-number when the fields are evaluated (and
\* DEBUG_LEVEL unset or set to a number): the load yields exactly two
\* errors, MissingEnvVar for NAME and then InvalidEnvironment for PORT
\* with the raw value "not-a-number", and no configuration value.
C11_EndToEndFailure ==
    ( /\ last.op \in {"Load::new", "Load::load"}
      /\ last.schema = ServiceConfig
      /\ env["NAME"] = NotPresent
      /\ env["PORT"] = Utf8(notANumber)
      /\ env["DEBUG_LEVEL"] \in {NotPresent, Utf8(s3)} )
    => /\ ~last.ok
       /\ last.config = <<>>
       /\ last.errs =
            << MissingEnvVar("NAME", "Service name", SomeStr(app)),
               InvalidEnvironment("PORT", notANumber, "Server port",
                                  SomeStr(s8080)) >>

\* C11 witness: Load::new returned Err for that schema and environment.
C11_Witness ==
    /\ last.op = "Load::new"
    /\ last.schema = ServiceConfig
    /\ env["NAME"] = NotPresent
    /\ env["PORT"] = Utf8(notANumber)
    /\ env["DEBUG_LEVEL"] = NotPresent
    /\ Len(last.errs) = 2

\* C12: Environment parses exactly "prod" and "production" to Prod and
\* "dev" and "development" to Dev, case-sensitively; every other string
\* ("PROD" and "" included) fails with InvalidEnvironment whose raw value
\* is the input and whose example is "prod".
C12_EnvironmentParse ==
    last.op = "Environment::from_str" =>
      LET s == env[last.key].s
      IN  /\ s \in {prod, production} <=> last.ret = Some(Prod)
          /\ s \in {dev, development} <=> last.ret = Some(Dev)
          /\ last.ok <=> s \in {prod, production, dev, development}
          /\ ~last.ok =>
               /\ last.ret = None
               /\ Len(last.errs) = 1
               /\ last.errs[1].kind = "InvalidEnvironment"
               /\ last.errs[1].value = SomeStr(s)
               /\ last.errs[1].example = SomeStr(prod)

\* C12 witness: "PROD" was parsed and rejected.
C12_Witness ==
    /\ last.op = "Environment::from_str"
    /\ env[last.key] = Utf8(<<"P", "R", "O", "D">>)
    /\ ~last.ok
    /\ last.errs[1].value = SomeStr(<<"P", "R", "O", "D">>)

\* The example string a record call hands to its field policy.
FieldExample(op, k) ==
    IF op = "optional" THEN OptExample(k) ELSE SomeStr(to_string(Arg(k)))

\* C19: when a value fails to parse, the InvalidEnvironment error the
\* builder records carries the field's own key, description and example
\* and the raw string; the error of the type's parser is discarded (an
\* Environment field under key APP_ENV is reported under APP_ENV, not
\* under "ENVIRONMENT").
C19_FieldContextInError ==
    (last.op \in RecordOps /\ StringUnparseable(last.ty, env[last.key])) =>
      /\ last.pushed = 1
      /\ LastError = InvalidEnvironment(last.key, env[last.key].s,
                                        Description(last.key),
                                        FieldExample(last.op, last.key))
      /\ LastError # Parse(last.ty, env[last.key].s).err
      /\ LastError.key # "ENVIRONMENT"

\* C19 witness: required::<Environment>("APP_ENV", ..) with APP_ENV=staging.
C19_Witness ==
    /\ last.op = "required"
    /\ last.ty = "Environment"
    /\ env[last.key] = Utf8(staging)
    /\ last.pushed = 1
    /\ LastError.key = "APP_ENV"
    /\ LastError.example = SomeStr(dev)

\* The table rows of a write_docs text, each as its sequence of pieces
\* after the leading "| ".
DocRows(text) ==
    LET segs == Split(text, "| ")
    IN  [i \in 1..(Len(segs) - 1) |-> segs[i + 1]]

\* The last cell of a table row: what stands between the third " | " and
\* the closing " |\n".
LastCell(row) == SubSeq(row, 7, Len(row) - 1)

Plain(text) ==
    SelectSeq(text, LAMBDA piece :
                      piece \notin {"ESC[0m", "ESC[1;33m", "ESC[1;35m",
                                    "ESC[31m", "ESC[36m"})

\* The keys that the blocks of an aggregate text start with, in order.
BlockKeys(text) ==
    LET segs == Split(Plain(text), "  - ")
    IN  [i \in 1..(Len(segs) - 1) |-> segs[i + 1][1]]

\* C14: format_config_errors on a list of N errors produces
\* "Configuration failed with N error(s):" followed by exactly N indented
\* blocks, block i being the Display of error i of the list, whatever the
\* colour setting; the order of the blocks is the order of the list, and
\* for the panic of a build it is the declaration order of the failed
\* fields.
C14_FormatOrder ==
    /\ \A colorize \in BOOLEAN :
         LET text == format_config_errors(colorize, errors)
             segs == Split(text, "  - ")
             n == Len(errors)
         IN  /\ Plain(segs[1]) = <<"Configuration failed with ">>
                                 \o uint_to_string(n) \o <<" error(s):", "\n">>
             /\ Len(segs) = n + 1
             /\ BlockKeys(text) = [i \in 1..n |-> errors[i].key]
             /\ \A i \in 1..n :
                  Plain(segs[i + 1]) = Plain(Display(colorize, errors[i]))
                                       \o (IF i < n THEN <<"\n">> ELSE <<>>)
    /\ (last.op = "Load::load" /\ ~last.ok) =>
         LET failed == SelectSeq(last.schema,
                                 LAMBDA f : ~field_policy(env, f).ok)
         IN  BlockKeys(last.text) = [i \in 1..Len(failed) |-> failed[i].env_var]

\* C14 witness: Load::load panicked with the three fields of the schema
\* failed, and the text has the three blocks in declaration order.
C14_Witness ==
    /\ last.op = "Load::load"
    /\ ~last.ok
    /\ Len(last.errs) = 3
    /\ BlockKeys(last.text) = <<"NAME", "PORT", "DEBUG_LEVEL">>

\* C15: no builder operation (required, or_default, optional, validate,
\* finish, finish_or_panic, write_docs) and no generated load attempt
\* (Load::new, Load::load, Load::builder_for_docs) adds, removes or changes
\* a process environment variable: the environment after the call equals
\* the environment before it.
C15_EnvUnchanged == [][env' = env]_vars

\* C15, amended: only Load::new and Load::load change the environment, by
\* the dotenv() they start with: a variable that env::var cannot read
\* (unset, or not valid Unicode) may be set to the string the .env file
\* gives it; no variable is removed and no readable variable is changed.
\* Every builder operation and builder_for_docs leave the environment as
\* it is.
C15_EnvFrame ==
    [][/\ last'.op \notin {"Load::new", "Load::load"} => env' = env
       /\ \A k \in Keys :
            /\ env_var(env, k).ok => env'[k] = env[k]
            /\ env'[k] # env[k] =>
                 env'[k].kind = "Unicode" /\ \E file \in DotFiles : env'[k] = file[k]]_vars

\* C15 witness: Load::new returned and PORT holds the value of the .env
\* file, which no initial environment gives it.
C15_Witness ==
    /\ last.op = "Load::new"
    /\ env["PORT"] = Utf8(s9090)

\* The .env files that leave an environment as it is when dotenv() reads
\* them: the environment already holds what they would set.
SettledFiles(e) == {file \in DotFiles : dotenv(e, file) = e}

\* C16: for one schema and one environment Load::load and Load::new
\* agree: load panics exactly when new returns Err, and when new returns
\* Ok(c) load returns a configuration with the same value in every field.
C16_LoadAgreesWithNew ==
    /\ last.op = "Load::load" =>
         \A file \in SettledFiles(env) :
           LET r == Load_new(last.schema, dotenv(env, file))
           IN  /\ ~last.ok <=> r.outcome = "Err"
               /\ last.ok <=> r.outcome = "Ok"
               /\ last.config = r.config
    /\ last.op = "Load::new" =>
         \A file \in SettledFiles(env), colorize \in BOOLEAN :
           LET r == Load_load(colorize, last.schema, dotenv(env, file))
           IN  /\ ~last.ok <=> r.outcome = "panic"
               /\ last.ok <=> r.outcome = "Ok"
               /\ last.config = r.config

\* C16 witness: Load::load panicked where only the Optional field failed,
\* and Load::new returns Err for the same environment.
C16_Witness ==
    /\ last.op = "Load::load"
    /\ ~last.ok
    /\ Len(last.errs) = 1
    /\ last.errs[1].key = "DEBUG_LEVEL"
    /\ Load_new(last.schema, env).outcome = "Err"

\* C18: the typed parser classifies a key as missing only when the key is
\* absent from the environment: required(), which records env_parse's
\* result as it is, records MissingEnvVar iff the key is not set, and for
\* a key that is set the parsed value or InvalidEnvironment; a Default or
\* Optional field whose key is set to something that does not parse never
\* falls back to the default or to None without an error.
C18_MissingIffAbsent ==
    /\ last.op = "required" =>
         /\ PushedOne("MissingEnvVar") <=> env[last.key].kind = "NotPresent"
         /\ env[last.key].kind # "NotPresent" =>
              \/ last.pushed = 0 /\ last.ret.some
              \/ PushedOne("InvalidEnvironment")
    /\ (last.op \in {"or_default", "optional"}
        /\ PresentUnparseable(last.ty, env[last.key])) =>
         last.pushed = 1 /\ last.ret = None

\* The calls of one attempt on a key: one env::var, and one parse of the
\* string it returned when it returned one.
FieldCalls(e, k) ==
    <<EnvVarCall(k)>> \o (IF env_var(e, k).ok THEN <<ParseCall(k)>> ELSE <<>>)

RECURSIVE SchemaCalls(_, _)
SchemaCalls(sc, e) ==
    IF sc = <<>> THEN <<>>
    ELSE FieldCalls(e, Head(sc).env_var) \o SchemaCalls(Tail(sc), e)

\* How many of the calls are the given call.
Count(io, call) == Len(SelectSeq(io, LAMBDA c : c = call))

\* C20: a record call makes exactly one environment read for its key and
\* one parse attempt on what it read (none when nothing could be read),
\* with no retry on absence or parse failure; one build attempt
\* (Load::new / Load::load) evaluates each declared field exactly once, in
\* declaration order.  The reads dotenv() makes before the fields are
\* evaluated are not counted.
C20_SingleAttempt ==
    /\ last.op \in RecordOps =>
         /\ last.io = FieldCalls(env, last.key)
         /\ Count(last.io, EnvVarCall(last.key)) = 1
         /\ Count(last.io, ParseCall(last.key)) <= 1
    /\ last.op \in {"Load::new", "Load::load"} =>
         /\ last.io = SchemaCalls(last.schema, env)
         /\ \A i \in 1..Len(last.schema) :
              Count(last.io, EnvVarCall(last.schema[i].env_var)) = 1
         /\ SelectSeq(last.io, LAMBDA c : c.op = "env::var") =
              [i \in 1..Len(last.schema) |-> EnvVarCall(last.schema[i].env_var)]

\* C20 witness: Load::new failed on PORT=not-a-number with NAME unset and
\* DEBUG_LEVEL=3: three reads and two parse attempts were made.
C20_Witness ==
    /\ last.op = "Load::new"
    /\ ~last.ok
    /\ env["PORT"] = Utf8(notANumber)
    /\ last.io = <<EnvVarCall("NAME"), EnvVarCall("PORT"), ParseCall("PORT"),
                   EnvVarCall("DEBUG_LEVEL"), ParseCall("DEBUG_LEVEL")>>

\* What the declaration of ServiceConfig says of each field.
ServiceConfigDeclared ==
    << [key |-> "NAME", description |-> "Service name",
        default |-> StrVal(app), required |-> TRUE],
       [key |-> "PORT", description |-> "Server port",
        default |-> U16Val(8080), required |-> FALSE],
       [key |-> "DEBUG_LEVEL", description |-> "Debug level",
        default |-> U16Val(3), required |-> FALSE] >>

\* C17: the static metadata of a schema is initialized at most once even
\* when the first calls of metadata() race on several threads; every
\* call returns the same instance, whose key, description,
\* default/example and required flag are those of the schema declaration,
\* whatever the environment holds and whether or not a load succeeded.
C17_MetadataOnce ==
    /\ cell.inits <= 1
    /\ Cardinality({t \in Threads : threads[t].pc = "run"}) <= 1
    /\ cell.state = "complete" =>
         cell.inits = 1 /\ cell.value = ServiceConfigDeclared
    /\ \A t \in Threads :
         threads[t].seen # 0 =>
           /\ cell.state = "complete"
           /\ threads[t].seen = cell.instance
           /\ \A u \in Threads :
                threads[u].seen # 0 => threads[u].seen = threads[t].seen

\* C17 witness: every thread has got the metadata, one of them after
\* waiting for the thread that initialized it, and the latest load failed.
C17_Witness ==
    /\ \A t \in Threads : threads[t].pc = "returned"
    /\ \E t \in Threads : threads[t].blocked
    /\ cell.inits = 1
    /\ last.op = "Load::new" /\ ~last.ok

----------------------------------------------------------------------------
(* Required fields: the example.                                          *)

\* The examples a required() call of the given type may be handed.
Examples(ty) ==
    CASE ty = "String" -> {StrVal(app), StrVal(svc)}
      [] ty = "Environment" -> {Prod, Dev}
      [] OTHER -> {U16Val(8080), U16Val(3), U16Val(9090)}

\* C21: the example of a Required field never influences the outcome: in
\* the environment a required() call ran in, the evaluation of the same key
\* and type with any other example succeeds or fails alike, returns the
\* same value and fails with the same kind of error, the errors differing
\* in their example field only; the example handed over appears in the
\* error's example field and in the recorded metadata.
C21_ExampleNoInfluence ==
    last.op = "required" =>
        /\ fields[Len(fields)].default_str = to_string(Arg(last.key))
        /\ last.pushed = 1 =>
             LastError.example = SomeStr(to_string(Arg(last.key)))
        /\ \A alt \in Examples(last.ty) :
             \E r \in {env_required(env, last.ty, last.key,
                                    Description(last.key), alt)} :
                /\ r.ok = (last.pushed = 0)
                /\ r.v = last.ret
                /\ ~r.ok =>
                     /\ r.e.kind = LastError.kind
                     /\ r.e.example = SomeStr(to_string(alt))
                     /\ [r.e EXCEPT !.example = LastError.example] = LastError

\* A required() call that failed on an unset key, for which another example
\* gives an error that differs in its example.
C21_Witness ==
    /\ last.op = "required"
    /\ last.pushed = 1
    /\ LastError.kind = "MissingEnvVar"
    /\ env[last.key] = NotPresent
    /\ \E alt \in Examples(last.ty) :
         env_required(env, last.ty, last.key, Description(last.key), alt).e
            # LastError

----------------------------------------------------------------------------
(* Record calls: the metadata.                                            *)

\* C22: every required() and or_default() call appends its FieldMetadata
\* whatever the evaluation gave: required() records required = true and the
\* stringified example, or_default() records required = false and the
\* stringified default, and both record key and description as passed.
C22_MetadataAlways ==
    [][(open /\ last'.op \in {"required", "or_default"}) =>
         fields' = Append(fields,
                          FieldMetadata(last'.key, Description(last'.key),
                                        to_string(Arg(last'.key)),
                                        last'.op = "required"))]_vars

\* A failed required() followed by a failed or_default(), both recorded.
C22_Witness ==
    /\ last.op = "or_default"
    /\ last.pushed = 1
    /\ Len(calls) = 2
    /\ calls[1].mode = "Required"
    /\ ~calls[1].ok
    /\ Len(fields) = 2
    /\ fields[1].required
    /\ fields[1].default_str = to_string(Arg(fields[1].key))
    /\ ~fields[2].required
    /\ fields[2] = FieldMetadata("PORT", "Server port", s8080, FALSE)

----------------------------------------------------------------------------
(* Declared Optional fields: the example.                                 *)

\* The declared Optional fields of a schema that carry an example.
OptionalWithExample(sc) ==
    {i \in 1..Len(sc) : sc[i].mode = "Optional" /\ sc[i].example.some}

\* C23: for an Optional field declared with an example, the FieldMetadata
\* recorded by the generated builder calls has that example as its
\* default/example string, and an InvalidEnvironment error recorded for the
\* field carries that example.
C23_OptionalExample ==
    /\ last.op = "builder_for_docs" =>
         \A i \in OptionalWithExample(last.schema) :
            fields[i].default_str = to_string(last.schema[i].example.v)
    /\ last.op \in {"Load::new", "Load::load"} =>
         \A i \in OptionalWithExample(last.schema), j \in 1..Len(last.errs) :
            (/\ last.errs[j].key = last.schema[i].env_var
             /\ last.errs[j].kind = "InvalidEnvironment")
            => last.errs[j].example
                 = SomeStr(to_string(last.schema[i].example.v))

----------------------------------------------------------------------------
(* The generated unwraps.                                                 *)

\* C24: a required() or or_default() call returns Some(value) iff it
\* appended no error; hence a generated Load::new / Load::load whose
\* finish() / finish_or_panic() found no error has a value for every
\* Required and Default field, and the expect("BUG: ..") of the generated
\* unwraps never panics.
C24_ExpectUnreachable ==
    /\ last.op \in {"required", "or_default"} =>
         (last.ret.some <=> last.pushed = 0)
    /\ last.op \in {"Load::new", "Load::load"} =>
         /\ last.text # <<"BUG">>
         /\ \E b \in {load_impl_fields(last.schema, load_start, env)} :
               b.errors = <<>> =>
                  /\ ~expect_fails(last.schema, b.rets)
                  /\ last.ok
         /\ last.ok =>
              \A i \in 1..Len(last.schema) :
                 last.schema[i].mode # "Optional" =>
                    last.config[i].ty = last.schema[i].ty

\* A Load::load that returned, the Default field taking its default.
C24_Witness ==
    /\ last.op = "Load::load"
    /\ last.ok
    /\ env["PORT"] = NotPresent
    /\ last.config[1] = StrVal(svc)
    /\ last.config[2] = U16Val(8080)

----------------------------------------------------------------------------
(* Repeated keys.                                                         *)

\* C25 as stated: the metadata list of a builder never contains two entries
\* with the same key.
C25_NoDuplicateKeys ==
    \A i, j \in 1..Len(fields) : i # j => fields[i].key # fields[j].key

\* C25, amended: every record call evaluates its key once and contributes
\* exactly one FieldMetadata entry, for its key, also when the key has been
\* recorded before: the metadata list has one entry per record call, in the
\* order of the calls, and so repeats a key exactly when the calls did.
C25_OneEntryPerCall ==
    /\ open =>
         /\ Len(fields) = Len(calls)
         /\ \A i \in 1..Len(fields) : fields[i].key = calls[i].key
    /\ (open /\ last.op \in RecordOps) =>
         /\ fields[Len(fields)].key = last.key
         /\ Count(last.io, EnvVarCall(last.key)) = 1
         /\ Len(last.io) \in {1, 2}

\* Two record calls with the same key, both recorded.
C25_Witness ==
    /\ open
    /\ last.op \in RecordOps
    /\ Len(fields) = 2
    /\ fields[1].key = fields[2].key
    /\ calls[1].key = calls[2].key

----------------------------------------------------------------------------
(* The life of a builder.                                                 *)

\* The operations that take a builder: by reference, or by value.
BorrowingOps == RecordOps \cup {"validate", "write_docs"}
ConsumingOps == {"finish", "finish_or_panic"}

\* C26: once finish or finish_or_panic has taken a builder, no record call,
\* validate, write_docs or second finalizing call is applied to it: a
\* finalizing call takes an open builder and leaves none in hand, every
\* operation on a builder is made while it is open, and a builder in hand
\* after a finalizing call is a new one (ConfigBuilder::new or
\* builder_for_docs).
C26_FinalizedIsFinal ==
    [][/\ last'.op \in ConsumingOps => (open /\ ~open')
       /\ last'.op \in BorrowingOps => (open /\ open')
       /\ ~open => last'.op \notin (BorrowingOps \cup ConsumingOps)
       /\ (~open /\ open') =>
            /\ last'.op \in {"new", "builder_for_docs"}
            /\ last'.op = "new" => (fields' = <<>> /\ errors' = <<>>)]_vars

\* A builder finalized by finish() after two record calls.
C26_Witness ==
    /\ last.op = "finish"
    /\ ~open
    /\ Len(calls) = 2
    /\ fields = <<>>

----------------------------------------------------------------------------
(* The rendering of one error.                                            *)

\* The lines of a block of text, without the empty ones that the final
\* newline of a block and the separator after it leave.
BlockLines(block) == SelectSeq(Split(block, "\n"), LAMBDA line : line # <<>>)

\* The first line the claim gives for an error: key and failure class.
HeadLine(e) ==
    IF e.kind = "MissingEnvVar"
    THEN <<e.key, ": Is missing from environment and is required">>
    ELSE <<e.key, ": Invalid value ", "'">> \o e.value.s \o <<"'">>

\* C27: each ConfigError renders as a block whose first line is the key
\* and the failure class (missing and required for MissingEnvVar, "Invalid
\* value '<raw>'" with the raw string for InvalidEnvironment), whose second
\* line is the Description, and which has a third line "Example:
\* KEY=example" iff the error has an example.  Checked on the blocks of the
\* panic message of a failed Load::load, colours aside.
C27_ErrorBlock ==
    (last.op = "Load::load" /\ ~last.ok) =>
        \E segs \in {Split(Plain(last.text), "  - ")} :
            /\ Len(segs) = Len(last.errs) + 1
            /\ \A i \in 1..Len(last.errs) :
                 \E lines \in {BlockLines(segs[i + 1])} :
                    /\ Len(lines) = IF last.errs[i].example.some THEN 3 ELSE 2
                    /\ lines[1] = HeadLine(last.errs[i])
                    /\ lines[2] = <<"\tDescription: ",
                                    last.errs[i].description>>
                    /\ last.errs[i].example.some =>
                         lines[3] = <<"\tExample: ", last.errs[i].key, "=">>
                                    \o last.errs[i].example.s

\* A Load::load that failed with a missing key that has an example, and an
\* invalid value whose error has none.
C27_Witness ==
    /\ last.op = "Load::load"
    /\ ~last.ok
    /\ \E i, j \in 1..Len(last.errs) :
         /\ last.errs[i].kind = "MissingEnvVar"
         /\ last.errs[i].example.some
         /\ last.errs[j].kind = "InvalidEnvironment"
         /\ ~last.errs[j].example.some
         /\ last.errs[j].value.s = s65536

----------------------------------------------------------------------------
(* define_config!: the mode of a field and the declarations refused.      *)

LoadOps == {"Load::new", "Load::load"}

\* The mode a field's attribute list asks for by the precedence required,
\* default = value, optional; "none" when it names none of them.
DeclaredMode(parsed) ==
    CASE parsed["required"].kind # "Absent" -> "Required"
      [] parsed["required"].kind = "Absent"
         /\ parsed["default"].kind = "Expr" -> "Default"
      [] parsed["required"].kind = "Absent"
         /\ parsed["default"].kind # "Expr"
         /\ parsed["optional"].kind # "Absent" -> "Optional"
      [] OTHER -> "none"

\* The declaration has a #[field(..)] list whose env and doc are accepted.
EnvDocAccepted(decl) ==
    /\ decl.shape = "list"
    /\ decl.parsed["env"].kind = "Str"
    /\ \/ decl.parsed["doc"].kind = "Str"
       \/ decl.parsed["doc"].kind = "Absent" /\ decl.allow_missing_docs

\* C28: a field attribute resolves to one mode by the precedence required,
\* then default = value, then optional, and a field with none of them is
\* rejected; a field declared with both optional and default = v is a
\* Default field: the load gives the parsed value of a key that is set and
\* valid, and v for a key that is not set.
C28_ModePrecedence ==
    (expansion.done /\ expansion.decl.shape = "list") =>
        /\ DeclaredMode(expansion.decl.parsed) = "none" =>
             /\ ~expansion.r.ok
             /\ EnvDocAccepted(expansion.decl) =>
                  expansion.r.err = "field must have one of: required, optional, or default = value"
        /\ expansion.r.ok =>
             expansion.r.schema[1].mode = DeclaredMode(expansion.decl.parsed)
        /\ (/\ EnvDocAccepted(expansion.decl)
            /\ DeclaredMode(expansion.decl.parsed) = "Default") =>
             /\ expansion.r.ok
             /\ expansion.r.schema[1].default = expansion.decl.parsed["default"].v
        /\ (/\ last.op \in LoadOps
            /\ DeclaredMode(expansion.decl.parsed) = "Default"
            /\ expansion.decl.parsed["optional"].kind # "Absent") =>
             /\ Parses("u16", env["PORT"]) =>
                  /\ last.ok
                  /\ last.config[1] = Parse("u16", env["PORT"].s).v
             /\ env["PORT"] = NotPresent =>
                  /\ last.ok
                  /\ last.config[1] = expansion.decl.parsed["default"].v

\* A field declared `optional, default = 3` and loaded with PORT=8080.
C28_Witness ==
    /\ last.op = "Load::new"
    /\ expansion.decl.parsed["optional"] = MetaFlag
    /\ expansion.decl.parsed["default"] = MetaExpr(U16Val(3))
    /\ expansion.decl.parsed["required"] = Absent
    /\ env["PORT"] = Utf8(s8080)
    /\ last.ok
    /\ last.config[1] = U16Val(8080)

\* C29: a declaration that breaks the invariants of a field is rejected
\* by the expansion, so that no Load function exists to run: a Required
\* field without an example is an error, and so is an Optional field whose
\* declared type is not Option<T>; an accepted Optional field is parsed as
\* the inner type T and its loaded value is an Option<T>.
C29_SchemaRejected ==
    (expansion.done /\ expansion.decl.shape = "list") =>
        /\ (/\ DeclaredMode(expansion.decl.parsed) = "Required"
            /\ expansion.decl.parsed["example"].kind # "Expr") =>
             /\ ~expansion.r.ok
             /\ EnvDocAccepted(expansion.decl) =>
                  expansion.r.err = "required fields must have an #[example] attribute"
        /\ (/\ DeclaredMode(expansion.decl.parsed) = "Optional"
            /\ ~expansion.decl.ty.option) =>
             /\ ~expansion.r.ok
             /\ EnvDocAccepted(expansion.decl) =>
                  expansion.r.err = "optional fields must have type Option<T>"
        /\ ~expansion.r.ok =>
             /\ expansion.r.schema = <<>>
             /\ last.op \notin LoadOps
        /\ (expansion.r.ok /\ expansion.r.schema[1].mode = "Optional") =>
             /\ expansion.decl.ty.option
             /\ expansion.r.schema[1].ty = expansion.decl.ty.inner
             /\ (last.op \in LoadOps /\ last.ok) =>
                  /\ DOMAIN last.config[1] = DOMAIN None
                  /\ last.config[1].some =>
                       last.config[1].v.ty = expansion.decl.ty.inner
                  /\ Parses("u16", env["PORT"]) =>
                       last.config[1] = Some(Parse("u16", env["PORT"].s).v)
                  /\ env["PORT"] = NotPresent => last.config[1] = None

\* An Optional field declared with type u16, refused by the expansion.
C29_Witness ==
    /\ expansion.done
    /\ expansion.decl.parsed["optional"] = MetaFlag
    /\ expansion.decl.parsed["example"] = MetaExpr(U16Val(8080))
    /\ expansion.decl.ty = Plain_type("u16")
    /\ ~expansion.r.ok
    /\ expansion.r.err = "optional fields must have type Option<T>"

\* An Optional field declared with type Option<u16>, accepted and loaded.
C29_Loaded ==
    /\ last.op = "Load::load"
    /\ last.ok
    /\ expansion.r.schema[1].mode = "Optional"
    /\ last.config[1] = Some(U16Val(8080))

\* A Required field without an example, refused by the expansion.
C29_RequiredRefused ==
    /\ expansion.done
    /\ expansion.r.err = "required fields must have an #[example] attribute"

====
